---- MODULE Spec2Model ----
(***************************************************************************)
(* State-machine model of the orchestration logic of the solution graph:   *)
(* CompareNode (src/src/components/compare.py) and SendEmailNode           *)
(* (src/src/components/send_email.py).                                     *)
(*                                                                         *)
(* The remote task API, the file storage, the SMTP server and the job      *)
(* scheduler are the environment.  Every remote call may raise; what it    *)
(* returns is drawn from the sets defined below.                           *)
(***************************************************************************)
EXTENDS Integers, Sequences, FiniteSets, TLC

\* ------------------------------------------------------------------ bounds
\* Number of evaluator tasks the remote task API creates in one behaviour.
MaxTasks == 2
\* Number of registrations on_finish accepts in one behaviour.
MaxCallbacks == 2

\* ------------------------------------------------------- program constants
\* compare.py:312  len(self.eval_dirs) < 2
MinDirs == 2
\* compare.py:295  time.sleep(5)
PollInterval == 5
\* compare.py:296  time.time() - current_time > 300
PollTimeout == 300

\* ----------------------------------------------------------- Python values
None == [none |-> TRUE]
Some(x) == [none |-> FALSE, val |-> x]

\* A text is a sequence of tokens; "" is the empty sequence.
EmptyStr == << >>
Whitespace == {" ", "\n"}

\* ------------------------------------------------------------- environment
\* Threads that can run send_comparison_request: the web handler of the
\* "Run manually" button and the scheduler's periodic job.
Threads == {"ui", "job"}

\* Values the caller passes as evaluation_dirs.
EvalDirChoices ==
    {None, Some(<< >>), Some(<<"/eval/a">>), Some(<<"/eval/a", "/eval/b">>)}

\* Functions the application registers with CompareNode.on_finish.
CallbackFns == {"on_finish_cb", "other_cb"}

\* Result directories the worker answers with.
ResultDirs == {"/r1", "/r2", "/r3"}

\* Address abs_url joins a relative URL to.
ServerAddress == "https://server"
\* Tokens that are absolute URLs.
AbsoluteUrls == {"https://x/y"}

\* Team files: remote path -> contents; paths not in the domain do not exist.
LnkName == "Model Comparison Report.lnk"
TeamFiles ==
    (<<"/r1", "/", LnkName>> :> <<"https://x/y", "\n">>) @@
    (<<"/r2", "/", LnkName>> :> <<" ", "/model-benchmark?id=7", "\n">>)

\* The sender's address (EmailCredentials.username) and the texts nodes.py
\* and SendEmailNode.__init__ start with.
Username == "user@gmail.com"
DefaultSubject == <<"Supervisely Notification">>
AppBody == <<"Hey!">>

\* Job ids: compare.py:27 (compare_models_<uuid4>), send_email.py:539.
CompareJobId == "compare_models"
EmailJobId == "send_email_daily"

\* Values of the interval input (compare.py:90: 60, min 15, max 3600).
Intervals == {15, 60}

\* Files on the local disk, and attachment lists passed to send_email.
LocalFiles == {"report.pdf"}
AttachmentChoices == {<< >>, <<"report.pdf">>, <<"report.pdf", "missing.pdf">>}

\* Statuses of a remote task, as far as the launcher tells them apart.
TaskStatus == {"QUEUED", "STARTED", "FINISHED"}

\* Answers of api.task.send_request (a raise is a separate outcome).
Responses ==
    { [error |-> e, data |-> d] : e \in BOOLEAN,
                                  d \in {None} \cup {Some(r) : r \in ResultDirs} }

\* ------------------------------------------------------------------- texts
\* A str is the sequence of its tokens.
RECURSIVE LStrip(_)
LStrip(s) == IF s # << >> /\ Head(s) \in Whitespace THEN LStrip(Tail(s)) ELSE s
RECURSIVE RStrip(_)
RStrip(s) ==
    IF s # << >> /\ s[Len(s)] \in Whitespace
    THEN RStrip(SubSeq(s, 1, Len(s) - 1)) ELSE s
\* Mutant: lstrip() for strip().
Strip_LeftOnly(s) == LStrip(s)

\* compare.py:365  file.read().strip()
Strip(s) == RStrip(LStrip(s))

\* s.split(sep) : the pieces between the separators.
RECURSIVE Split(_, _)
Split(s, sep) ==
    IF \A k \in 1..Len(s) : s[k] # sep
    THEN <<s>>
    ELSE LET k == CHOOSE k \in 1..Len(s) :
                     s[k] = sep /\ \A j \in 1..(k - 1) : s[j] # sep
         IN  <<SubSeq(s, 1, k - 1)>> \o Split(SubSeq(s, k + 1, Len(s)), sep)

\* Lower-case forms of the tokens that have upper-case letters.
LowerToken == ("Gmail.com" :> "gmail.com") @@ ("YAHOO.COM" :> "yahoo.com") @@
              ("User" :> "user")

\* s.lower()
Lower(s) ==
    [k \in 1..Len(s) |-> IF s[k] \in DOMAIN LowerToken THEN LowerToken[s[k]] ELSE s[k]]

\* ------------------------------------------------------- EmailCredentials
\* send_email.py:28-35
SMTP_PROVIDERS ==
    (<<"gmail.com">> :> <<Some(<<"smtp.gmail.com">>), Some(587)>>) @@
    (<<"outlook.com">> :> <<Some(<<"smtp.office365.com">>), Some(587)>>) @@
    (<<"hotmail.com">> :> <<Some(<<"smtp.office365.com">>), Some(587)>>) @@
    (<<"live.com">> :> <<Some(<<"smtp.office365.com">>), Some(587)>>) @@
    (<<"yahoo.com">> :> <<Some(<<"smtp.mail.yahoo.com">>), Some(587)>>) @@
    (<<"icloud.com">> :> <<Some(<<"smtp.mail.me.com">>), Some(587)>>)

\* SMTP_PROVIDERS.get(domain, (None, None))
SMTP_PROVIDERS_get(domain) ==
    IF domain \in DOMAIN SMTP_PROVIDERS THEN SMTP_PROVIDERS[domain] ELSE <<None, None>>

\* Truth value of an Optional[str] and of an Optional[int].
TruthyStr(x) == ~x.none /\ x.val # << >>
TruthyInt(x) == ~x.none /\ x.val # 0

\* send_email.py:62-66 : get_domain, split("@")[-1].lower()
get_domain(username) ==
    LET pieces == Split(username, "@")
    IN  Lower(pieces[Len(pieces)])

\* Mutant: whitespace counts as a value.
MissingCredentials_NoStrip(username, password) ==
    ~TruthyStr(username) \/ ~TruthyStr(password)

\* send_email.py:47  the condition under which the constructor refuses.
MissingCredentials(username, password) ==
    \/ ~TruthyStr(username) \/ ~TruthyStr(password)
    \/ Strip(username.val) = << >> \/ Strip(password.val) = << >>

\* What the constructor leaves: an object, or the ValueError it raised.
Raised(line) == [ok |-> FALSE, raised |-> "ValueError", line |-> line]

\* send_email.py:40-60 : EmailCredentials.__init__
EmailCredentials(args) ==
    IF MissingCredentials(args.username, args.password)
    THEN Raised(48)
    ELSE LET domain == get_domain(args.username.val)
             found  == SMTP_PROVIDERS_get(domain)
             host   == IF TruthyStr(args.host) THEN args.host ELSE found[1]
             port   == IF TruthyInt(args.port) THEN args.port ELSE found[2]
         IN  IF ~TruthyStr(host) \/ ~TruthyInt(port)
             THEN Raised(57)
             ELSE [ok |-> TRUE, username |-> args.username.val,
                   password |-> args.password.val,
                   host |-> host.val, port |-> port.val]

\* nodes.py:78-81 : the credentials of the application, from its environment.
EnvCredentials ==
    [username |-> Some(<<"user", "@", "gmail.com">>), password |-> Some(<<"secret">>),
     host |-> None, port |-> None]

\* Arguments the constructor can be called with.
UsernameInputs ==
    {None, Some(<< >>), Some(<<" ">>),
     Some(<<"user", "@", "gmail.com">>), Some(<<"User", "@", "Gmail.com">>),
     Some(<<"user", "@", "outlook.com">>), Some(<<"user", "@", "hotmail.com">>),
     Some(<<"user", "@", "live.com">>), Some(<<"user", "@", "YAHOO.COM">>),
     Some(<<"user", "@", "icloud.com">>), Some(<<"user", "@", "corp.org">>),
     Some(<<"user", "@", "corp.org", "@", "gmail.com">>),
     Some(<<"user", "@", "gmail.com", "@", "corp.org">>),
     Some(<<"gmail.com">>), Some(<<"user", "@", "gmail.com", " ">>),
     Some(<<"user", "@">>)}
PasswordInputs == {None, Some(<< >>), Some(<<" ", "\n">>), Some(<<"secret">>)}
HostInputs == {None, Some(<< >>), Some(<<"mail.corp.org">>)}
PortInputs == {None, Some(0), Some(2525)}
CredentialInputs ==
    [username : UsernameInputs, password : PasswordInputs,
     host : HostInputs, port : PortInputs]

\* -------------------------------------------------------------------- state
VARIABLES
    eval_dirs,               \* CompareNode.eval_dirs
    result_comparison_dir,   \* CompareNode.result_comparison_dir
    result_comparison_link,  \* CompareNode.result_comparison_link
    finish_callbacks,        \* CompareNode._finish_callbacks
    card,                    \* badge keys shown on CompareNode.card
    run_btn,                 \* CompareNode._run_btn is enabled
    warning,                 \* CompareNode.warning is shown
    failed_notification,     \* CompareNode.failed_notification is shown
    tasks,                   \* remote tasks of the evaluator module: id -> status
    local_file,              \* contents of ./model_evaluation_report.lnk
    frame,                   \* per thread: position in send_comparison_request
    is_automated,            \* CompareNode.is_automated
    apply_btn,               \* the automation modal's Apply button is enabled
    jobs,                    \* jobs registered in the scheduler
    subject,                 \* SendEmailNode.subject
    body,                    \* SendEmailNode._body
    to_addrs,                \* SendEmailNode.to_addrs
    run_after_comparison,    \* SendEmailNode._run_after_comparison
    modal_settings,          \* SendEmailNode._modal_settings
    settings_modal,          \* SendEmailNode.settings_modal is shown
    email_card,              \* badge keys shown on SendEmailNode.card
    mail,                    \* position in send_email
    cred_args,               \* arguments of the EmailCredentials constructor
    email_creds              \* what the constructor left (nodes.py:78)

auto_vars == <<is_automated, apply_btn>>
email_vars == <<subject, body, to_addrs, run_after_comparison, modal_settings,
                settings_modal, email_card, mail>>
creds_vars == <<cred_args, email_creds>>
rest_vars == <<auto_vars, jobs, email_vars, creds_vars>>

vars == <<eval_dirs, result_comparison_dir, result_comparison_link,
          finish_callbacks, card, run_btn, warning, failed_notification,
          tasks, local_file, frame, rest_vars>>

node_vars == <<eval_dirs, finish_callbacks>>
ui_vars == <<card, run_btn, warning, failed_notification>>
result_vars == <<result_comparison_dir, result_comparison_link>>

NoCalls == [sessions |-> 0, start |-> 0, request |-> 0, file |-> 0]

\* A thread that is not inside send_comparison_request.
IdleFrame ==
    [pc |-> "idle", task_id |-> 0, elapsed |-> 0, polls |-> 0, sleeps |-> 0,
     path |-> << >>, base_url |-> EmptyStr, i |-> 0,
     calls |-> NoCalls, polled |-> FALSE, task_info |-> None, seen |-> {}, timed_out |-> FALSE,
     sent_to |-> 0, resp |-> None, lnk |-> "unknown", cb_log |-> << >>,
     changed |-> FALSE, raised |-> "", outcome |-> "none"]

Quiescent == \A t \in Threads : frame[t].pc = "idle"

\* compare.py:188, 233  self.eval_dirs is None or len(self.eval_dirs) < 2
ShowWarning(dirs) == dirs.none \/ Len(dirs.val) < MinDirs

\* Mutant: the length check is dropped, only None and [] are refused.
NotEnoughDirs_OnlyEmpty(dirs) == dirs.none \/ dirs.val = << >>

\* compare.py:312  not self.eval_dirs or len(self.eval_dirs) < 2
NotEnoughDirs(dirs) == (dirs.none \/ dirs.val = << >>) \/ Len(dirs.val) < MinDirs

\* send_email is not running.
IdleMail ==
    [pc |-> "idle", attachments |-> << >>, i |-> 0, log |-> << >>,
     raised |-> "", outcome |-> "none"]

\* CompareNode.__init__ (compare.py:79-211) and SendEmailNode.__init__
\* (send_email.py:124-129), whatever evaluation_dirs is.
InitNodes ==
    /\ result_comparison_dir = None
    /\ result_comparison_link = None
    /\ card = {}
    /\ run_btn = ~ShowWarning(eval_dirs)
    /\ warning = ShowWarning(eval_dirs)
    /\ failed_notification = FALSE
    /\ local_file = None
    /\ frame = [t \in Threads |-> IdleFrame]
    /\ is_automated = FALSE
    /\ apply_btn = FALSE
    /\ jobs = {}
    /\ subject = Some(DefaultSubject)
    /\ body = Some(AppBody)
    /\ to_addrs = Some([list |-> FALSE, items |-> <<Username>>])
    /\ run_after_comparison = FALSE
    /\ modal_settings = None
    /\ settings_modal = FALSE
    /\ email_card = {}
    /\ mail = IdleMail

\* nodes.py:78-81 : email_creds = SendEmailNode.EmailCredentials(...)
InitCredentials ==
    /\ cred_args = EnvCredentials
    /\ email_creds = Some(EmailCredentials(EnvCredentials))

\* State after construction: no callback is registered, no evaluator task
\* has been started.
Init ==
    /\ eval_dirs \in EvalDirChoices
    /\ finish_callbacks = << >>
    /\ tasks = << >>
    /\ InitNodes
    /\ InitCredentials

\* State after nodes.py has built the graph: two evaluation reports,
\* on_finish_cb registered.
InitGraph ==
    /\ eval_dirs = Some(<<"/eval/a", "/eval/b">>)
    /\ finish_callbacks = <<"on_finish_cb">>
    /\ InitNodes
    /\ InitCredentials

\* The graph with an evaluator session up.
InitApp == InitGraph /\ tasks = <<"STARTED">>

\* The graph before any evaluator task has been started.
InitRun == InitGraph /\ tasks = << >>

\* nodes.py up to line 78: the constructor of the credentials is about to be
\* called, with any arguments.
InitCreds ==
    /\ eval_dirs = Some(<<"/eval/a", "/eval/b">>)
    /\ finish_callbacks = << >>
    /\ tasks = << >>
    /\ InitNodes
    /\ cred_args \in CredentialInputs
    /\ email_creds = None

\* ------------------------------------------------------------ badge helpers
\* card.update_badge_by_key / card.remove_badge_by_key
UpdateBadge(badges, key) == badges \cup {key}
RemoveBadge(badges, key) == badges \ {key}

Upd(t, rec) == frame' = [frame EXCEPT ![t] = rec]
Called(f, what) == [f.calls EXCEPT ![what] = @ + 1]

\* The locals of run_evaluator_session_if_needed go when it returns or raises.
Unwind(f) == [f EXCEPT !.elapsed = 0, !.polls = 0, !.sleeps = 0]

\* Mutant: the except clause forgets hide_running_badge.
Except_KeepsRunning(t, f, where) ==
    /\ card' = UpdateBadge(card, "Failed")
    /\ failed_notification' = TRUE
    /\ UNCHANGED <<run_btn, warning>>
    /\ frame' = [frame EXCEPT ![t] = [f EXCEPT !.pc = "done", !.raised = where,
                                              !.outcome = "failed",
                                              !.elapsed = 0, !.polls = 0,
                                              !.sleeps = 0]]

\* The except clause of send_comparison_request (compare.py:340-343), entered
\* from the step that raised: show_failed_badge, hide_running_badge.
Except(t, f, where) ==
    /\ card' = RemoveBadge(UpdateBadge(card, "Failed"), "In Progress")
    /\ failed_notification' = TRUE
    /\ run_btn' = TRUE
    /\ UNCHANGED warning
    /\ Upd(t, [Unwind(f) EXCEPT !.pc = "done", !.raised = where,
                                !.outcome = "failed"])

\* ------------------------------------------------ send_comparison_request
\* compare.py:308-317 : clear the badges, check the input, show In Progress.
Begin(t) ==
    /\ frame[t].pc = "idle"
    /\ LET cleared == RemoveBadge(RemoveBadge(RemoveBadge(card, "Failed"),
                                              "In Progress"), "Finished")
           f == IdleFrame
       IN  IF NotEnoughDirs(eval_dirs)
           THEN /\ card' = UpdateBadge(cleared, "Failed")
                /\ failed_notification' = TRUE
                /\ warning' = TRUE
                /\ run_btn' = TRUE
                /\ Upd(t, [f EXCEPT !.pc = "done", !.outcome = "insufficient"])
           ELSE /\ card' = UpdateBadge(cleared, "In Progress")
                /\ failed_notification' = FALSE
                /\ warning' = FALSE
                /\ run_btn' = FALSE
                /\ Upd(t, [f EXCEPT !.pc = "sessions"])
    /\ UNCHANGED <<rest_vars, node_vars, result_vars, tasks, local_file>>

\* compare.py:172-174 : the Run manually button, clickable while enabled.
run_click_cb ==
    /\ frame["ui"].pc = "idle"
    /\ run_btn
    /\ Begin("ui")

\* compare.py:271-274 : sessions of the evaluator module in STARTED status.
get_sessions == {id \in 1..Len(tasks) : tasks[id] = "STARTED"}

\* Mutant: one running session is not enough.
session_running_two(sessions) == Cardinality(sessions) > 1

\* compare.py:275  session_running = len(available_sessions) > 0
session_running(sessions) == Cardinality(sessions) > 0

\* compare.py:270-279 : look for a running evaluator session.
GetSessions(t) ==
    LET f == [frame[t] EXCEPT !.calls = Called(frame[t], "sessions")] IN
    /\ frame[t].pc = "sessions"
    /\ \/ Except(t, f, "sessions")
       \/ /\ session_running(get_sessions)
          /\ \E first \in get_sessions :
                Upd(t, [f EXCEPT !.pc = "request", !.task_id = first,
                                 !.seen = get_sessions])
          /\ UNCHANGED ui_vars
       \/ /\ ~session_running(get_sessions)
          /\ Upd(t, [f EXCEPT !.pc = "start", !.seen = get_sessions])
          /\ UNCHANGED ui_vars
    /\ UNCHANGED <<rest_vars, node_vars, result_vars, tasks, local_file>>

\* Mutant: the check of the start request's answer is dropped.
LaunchFailed_Never(task_info_json) == FALSE

\* compare.py:288  task_info_json is None
LaunchFailed(task_info_json) == task_info_json.none

\* compare.py:280-292 : start a new evaluator task.  api.task.start raises,
\* returns nothing, or creates a task and returns its description.
StartTask(t) ==
    LET f == [frame[t] EXCEPT !.calls = Called(frame[t], "start")] IN
    /\ frame[t].pc = "start"
    /\ \/ /\ Except(t, f, "start")
          /\ UNCHANGED tasks
       \/ \E task_info_json \in {None} \cup
                 (IF Len(tasks) < MaxTasks THEN {Some(Len(tasks) + 1)} ELSE {}) :
            LET g == [f EXCEPT !.task_info = Some(task_info_json)] IN
            /\ tasks' = IF task_info_json.none THEN tasks
                        ELSE Append(tasks, "QUEUED")
            /\ IF LaunchFailed(task_info_json)
               THEN Except(t, g, "launch")
               ELSE /\ Upd(t, [g EXCEPT !.pc = "poll", !.elapsed = 0,
                                        !.task_id = IF task_info_json.none THEN 0
                                                    ELSE task_info_json.val])
                    /\ UNCHANGED ui_vars
    /\ UNCHANGED <<rest_vars, node_vars, result_vars, local_file>>

\* compare.py:293  self.api.task.get_status(task_id)
get_status(id) == IF id \in 1..Len(tasks) THEN tasks[id] ELSE "UNKNOWN"

\* Mutant: >= for >.
TimedOut_AtLimit(elapsed) == elapsed >= PollTimeout

\* compare.py:296  time.time() - current_time > 300
TimedOut(elapsed) == elapsed > PollTimeout

\* compare.py:293-302 : one turn of the polling loop.
Poll(t) ==
    LET f == [frame[t] EXCEPT !.polls = @ + 1, !.polled = TRUE] IN
    /\ frame[t].pc = "poll"
    /\ \/ Except(t, f, "poll")
       \/ /\ get_status(f.task_id) = "STARTED"
          /\ Upd(t, [f EXCEPT !.pc = "request"])
          /\ UNCHANGED ui_vars
       \/ /\ get_status(f.task_id) # "STARTED"
          /\ LET e == f.elapsed + PollInterval
                 g == [f EXCEPT !.elapsed = e, !.sleeps = @ + 1]
             IN  IF TimedOut(e)
                 THEN Upd(t, [g EXCEPT !.pc = "request", !.timed_out = TRUE])
                 ELSE Upd(t, g)
          /\ UNCHANGED ui_vars
    /\ UNCHANGED <<rest_vars, node_vars, result_vars, tasks, local_file>>

\* Mutant: an error field next to a data field is ignored.
has_error_unless_data(response) == response.error /\ response.data.none

\* compare.py:327  "error" in response
has_error(response) == response.error

\* An assignment of new to a field holding old changes it.
Differs(new, old) == new # old

\* compare.py:332  self.result_comparison_dir + "/Model Comparison Report.lnk"
LnkPath(dir) == <<dir, "/", LnkName>>

\* compare.py:321-333 : send the request, read the result directory.
SendRequest(t) ==
    LET f == [Unwind(frame[t]) EXCEPT !.calls = Called(frame[t], "request"),
                                      !.sent_to = frame[t].task_id] IN
    /\ frame[t].pc = "request"
    /\ \/ /\ Except(t, f, "request")
          /\ UNCHANGED result_vars
       \/ \E r \in Responses :
            LET g == [f EXCEPT !.resp = Some(r)] IN
            IF has_error(r)
            THEN /\ Except(t, g, "error")
                 /\ UNCHANGED result_vars
            ELSE /\ result_comparison_dir' = r.data
                 /\ UNCHANGED result_comparison_link
                 /\ IF r.data.none
                    THEN \* None + str : TypeError
                         Except(t, [g EXCEPT !.changed = Differs(r.data, result_comparison_dir)],
                                "data")
                    ELSE /\ Upd(t, [g EXCEPT !.pc = "exists",
                                             !.path = LnkPath(r.data.val),
                                             !.changed = Differs(r.data, result_comparison_dir)])
                         /\ UNCHANGED ui_vars
    /\ UNCHANGED <<rest_vars, node_vars, tasks, local_file>>

\* compare.py:357  self.api.file.exists(self.team_id, remote_lnk_path)
file_exists(path) == path \in DOMAIN TeamFiles

\* Mutant: a missing link file gives None.
MissingLink_None == None

\* compare.py:361  return ""
MissingLink == Some(EmptyStr)

\* compare.py:356-361 : a missing link file gives "".
LnkExists(t) ==
    LET f == [frame[t] EXCEPT !.calls = Called(frame[t], "file")] IN
    /\ frame[t].pc = "exists"
    /\ \/ /\ Except(t, f, "exists")
          /\ UNCHANGED result_vars
       \/ /\ ~file_exists(f.path)
          /\ result_comparison_link' = MissingLink
          /\ UNCHANGED result_comparison_dir
          /\ Upd(t, [f EXCEPT !.pc = "callbacks", !.i = 1, !.lnk = "missing",
                               !.changed = @ \/ Differs(MissingLink, result_comparison_link)])
          /\ UNCHANGED ui_vars
       \/ /\ file_exists(f.path)
          /\ Upd(t, [f EXCEPT !.pc = "download", !.lnk = "present"])
          /\ UNCHANGED <<ui_vars, result_vars>>
    /\ UNCHANGED <<rest_vars, node_vars, tasks, local_file>>

\* compare.py:363 : download the link file to ./model_evaluation_report.lnk
Download(t) ==
    LET f == [frame[t] EXCEPT !.calls = Called(frame[t], "file")] IN
    /\ frame[t].pc = "download"
    /\ \/ /\ Except(t, f, "download")
          /\ UNCHANGED local_file
       \/ /\ local_file' = Some(TeamFiles[f.path])
          /\ Upd(t, [f EXCEPT !.pc = "read"])
          /\ UNCHANGED ui_vars
    /\ UNCHANGED <<rest_vars, node_vars, result_vars, tasks>>

\* compare.py:369  sly.utils.abs_url(base_url) : a relative URL is joined to
\* the server address, an absolute one is kept.
abs_url(url) ==
    IF url # << >> /\ url[1] \in AbsoluteUrls THEN url ELSE <<ServerAddress>> \o url

\* compare.py:364-365 : open the local copy and read it.
ReadLnk(t) ==
    /\ frame[t].pc = "read"
    /\ IF local_file.none
       THEN Except(t, frame[t], "read")
       ELSE /\ Upd(t, [frame[t] EXCEPT !.pc = "remove",
                                       !.base_url = Strip(local_file.val)])
            /\ UNCHANGED ui_vars
    /\ UNCHANGED <<rest_vars, node_vars, result_vars, tasks, local_file>>

\* compare.py:367-369, 331 : remove the local copy, store the link.
RemoveLnk(t) ==
    /\ frame[t].pc = "remove"
    /\ local_file' = None
    /\ result_comparison_link' = Some(abs_url(frame[t].base_url))
    /\ Upd(t, [frame[t] EXCEPT !.pc = "callbacks", !.i = 1,
                               !.changed = @ \/ Differs(Some(abs_url(frame[t].base_url)),
                                                        result_comparison_link)])
    /\ UNCHANGED <<rest_vars, node_vars, ui_vars, result_comparison_dir, tasks>>

\* compare.py:336-337 : call the next finish-callback.
Callback(t) ==
    LET f == frame[t]
        g == [f EXCEPT !.cb_log = Append(@, [fn |-> finish_callbacks[f.i],
                                             dir |-> result_comparison_dir,
                                             link |-> result_comparison_link])]
    IN
    /\ f.pc = "callbacks"
    /\ f.i <= Len(finish_callbacks)
    /\ \/ Except(t, g, "callback")
       \/ /\ Upd(t, [g EXCEPT !.i = @ + 1])
          /\ UNCHANGED ui_vars
    /\ UNCHANGED <<rest_vars, node_vars, result_vars, tasks, local_file>>

\* compare.py:338-339 : show_finished_badge, hide_running_badge.
Finish(t) ==
    /\ frame[t].pc = "callbacks"
    /\ frame[t].i > Len(finish_callbacks)
    /\ card' = RemoveBadge(UpdateBadge(card, "Finished"), "In Progress")
    /\ run_btn' = TRUE
    /\ Upd(t, [frame[t] EXCEPT !.pc = "done", !.outcome = "finished"])
    /\ UNCHANGED <<rest_vars, node_vars, result_vars, warning, failed_notification,
                   tasks, local_file>>

\* send_comparison_request returns to its caller.
Return(t) ==
    /\ frame[t].pc = "done"
    /\ Upd(t, IdleFrame)
    /\ UNCHANGED <<rest_vars, node_vars, ui_vars, result_vars, tasks, local_file>>

\* ------------------------------------------------------- other operations
\* compare.py:222-234 : the evaluation_dirs setter.
SetEvaluationDirs(value) ==
    /\ Quiescent
    /\ eval_dirs' = value
    /\ run_btn' = (~value.none /\ value.val # << >>)
    /\ warning' = ShowWarning(value)
    /\ UNCHANGED <<rest_vars, finish_callbacks, card, failed_notification,
                   result_vars, tasks, local_file, frame>>

\* compare.py:349-354 : on_finish appends the function.
on_finish(fn) ==
    /\ Quiescent
    /\ Len(finish_callbacks) < MaxCallbacks
    /\ finish_callbacks' = Append(finish_callbacks, fn)
    /\ UNCHANGED <<rest_vars, eval_dirs, ui_vars, result_vars, tasks, local_file,
                   frame>>

\* The remote task API moves a task on.
TaskAdvance(id) ==
    /\ \/ tasks[id] = "QUEUED" /\ tasks' = [tasks EXCEPT ![id] = "STARTED"]
       \/ tasks[id] = "QUEUED" /\ tasks' = [tasks EXCEPT ![id] = "FINISHED"]
       \/ tasks[id] = "STARTED" /\ tasks' = [tasks EXCEPT ![id] = "FINISHED"]
    /\ UNCHANGED <<rest_vars, node_vars, ui_vars, result_vars, local_file, frame>>

\* The steps of send_comparison_request after the launcher.
Compare(t) ==
    \/ SendRequest(t)
    \/ LnkExists(t) \/ Download(t) \/ ReadLnk(t) \/ RemoveLnk(t)
    \/ Callback(t) \/ Finish(t) \/ Return(t)

Step(t) == GetSessions(t) \/ StartTask(t) \/ Poll(t) \/ Compare(t)

Next ==
    \/ run_click_cb
    \/ \E t \in Threads : Step(t)
    \/ \E v \in EvalDirChoices : SetEvaluationDirs(v)
    \/ \E fn \in CallbackFns : on_finish(fn)
    \/ \E id \in 1..Len(tasks) : TaskAdvance(id)

Spec == Init /\ [][Next]_vars

\* The graph of nodes.py, run from the Run manually button, starting with
\* no evaluator task.
NextRun ==
    \/ run_click_cb
    \/ \E t \in Threads : Step(t)
    \/ \E id \in 1..Len(tasks) : TaskAdvance(id)

\* A thread inside send_comparison_request runs on: every call it makes
\* returns or raises.
FairSpec ==
    /\ InitRun
    /\ [][NextRun]_vars
    /\ \A t \in Threads : WF_vars(Step(t))

TypeOK ==
    /\ eval_dirs \in EvalDirChoices
    /\ card \subseteq {"In Progress", "Finished", "Failed", "Automated"}
    /\ run_btn \in BOOLEAN

\* ------------------------------------------------------------ the scheduler
\* A registration is a record [id, trigger, replaced]; jobs is the set of
\* them.  replaced tells that the registration took the place of an earlier
\* one with the same id.
is_job_scheduled(js, id) == \E j \in js : j.id = id
remove_job(js, id) == {j \in js : j.id # id}
Registration(js, id, trigger) ==
    [id |-> id, trigger |-> trigger, replaced |-> is_job_scheduled(js, id)]

\* Mutant: add_job without replace_existing.
add_job_keep(js, id, trigger) == js \cup {Registration(js, id, trigger)}

\* add_job(..., replace_existing=True)
add_job(js, id, trigger) == remove_job(js, id) \cup {Registration(js, id, trigger)}

\* Everything of CompareNode but its card.
compare_vars == <<eval_dirs, result_vars, finish_callbacks, run_btn, warning,
                  failed_notification, tasks, local_file, frame>>

\* ------------------------------------------------- CompareNode automation
\* Mutant: remove leaves the scheduler as it is.
ComparisonAutomation_remove_nothing(js) == js

\* compare.py:38-43 : ComparisonAutomation.remove
ComparisonAutomation_remove(js) ==
    IF is_job_scheduled(js, CompareJobId) THEN remove_job(js, CompareJobId) ELSE js

\* compare.py:116-128 : the Periodic comparison switch is flipped.
automation_switch_change_cb(value) ==
    /\ value # is_automated
    /\ is_automated' = value
    /\ IF value
       THEN /\ apply_btn' = TRUE
            /\ UNCHANGED <<jobs, card>>
       ELSE /\ apply_btn' = FALSE
            /\ jobs' = ComparisonAutomation_remove(jobs)
            /\ card' = RemoveBadge(card, "Automated")
    /\ UNCHANGED <<compare_vars, creds_vars, email_vars>>

\* compare.py:130-137, 30-36 : Apply settings, clickable while enabled.
apply_automation(sec) ==
    /\ apply_btn
    /\ jobs' = add_job(jobs, CompareJobId, sec)
    /\ card' = UpdateBadge(card, "Automated")
    /\ UNCHANGED <<compare_vars, creds_vars, auto_vars, email_vars>>

\* The scheduler runs the periodic job (compare.py:88): it calls
\* send_comparison_request on its own thread, one instance at a time,
\* whatever the web handlers are doing.
compare_job ==
    /\ is_job_scheduled(jobs, CompareJobId)
    /\ Begin("job")

\* ----------------------------------------------------------- SendEmailNode
\* Python's  x or None  for a str or a list.
OrNone(x) == IF x = << >> THEN None ELSE Some(x)

\* Whether a stripped piece is kept.
Kept(piece) == Strip(piece) # << >>

\* send_email.py:258-260  [addr.strip() for addr in value.split(",") if addr.strip()]
SplitAddrs(text) ==
    LET pieces == SelectSeq(Split(text, ","), Kept)
    IN  [k \in 1..Len(pieces) |-> Strip(pieces[k])]

\* int() of the two-digit fields of the time picker.
ToInt == ("00" :> 0) @@ ("09" :> 9) @@ ("18" :> 18) @@ ("30" :> 30)

\* send_email.py:534-535  hour, minute = map(int, time.split(":"))
CronTrigger(time) ==
    LET fields == Split(time, ":")
    IN  [hour |-> ToInt[fields[1][1]], minute |-> ToInt[fields[2][1]], second |-> 0]

\* What the user can leave in the settings modal.
SubjectInputs == {<< >>, <<"Weekly report">>}
BodyInputs == {<<" ", "\n">>, <<"See the report.", "\n">>}
ToAddrsInputs == {<<" ", ",">>, <<"a@x.org", ",", " ", "b@y.org">>}
TimeInputs == {<<"09", ":", "00">>, <<"18", ":", "30">>}
ModalInputs ==
    [subject : SubjectInputs, body : BodyInputs, to_addrs : ToAddrsInputs,
     run_daily : BOOLEAN, run_daily_time : TimeInputs,
     run_after_comparison : BOOLEAN]

\* send_email.py:251-265
get_modal_settings(in) ==
    [subject |-> OrNone(in.subject),
     body |-> OrNone(Strip(in.body)),
     to_addrs |-> OrNone(SplitAddrs(in.to_addrs)),
     run_daily |-> in.run_daily,
     run_daily_time |-> in.run_daily_time,
     run_after_comparison |-> in.run_after_comparison]

\* TasksScheduler.remove_task : nothing to do for an id that is not registered.
remove_task(js, id) == remove_job(js, id)

\* send_email.py:524-545 : update_scheduler with settings m.
update_scheduler(js, m) ==
    LET kept == IF ~m.run_daily THEN remove_task(js, EmailJobId) ELSE js
    IN  add_job(kept, EmailJobId, CronTrigger(m.run_daily_time))

\* send_email.py:141-143 : the Notifications Settings button.
settings_click_cb ==
    /\ ~settings_modal
    /\ settings_modal' = TRUE
    /\ UNCHANGED <<compare_vars, creds_vars, card, auto_vars, jobs, subject, body, to_addrs,
                   run_after_comparison, modal_settings, email_card, mail>>

\* send_email.py:267-282 : Apply in the settings modal.  The body setter
\* (304-311) raises ValueError for a value that is not a str; the handler
\* stops there.
modal_save_settings(in) ==
    LET m == get_modal_settings(in) IN
    /\ settings_modal
    /\ modal_settings' = Some(m)
    /\ run_after_comparison' = m.run_after_comparison
    /\ email_card' = IF m.run_daily \/ m.run_after_comparison
                     THEN UpdateBadge(email_card, "Automated")
                     ELSE RemoveBadge(email_card, "Automated")
    /\ subject' = m.subject
    /\ IF m.body.none
       THEN UNCHANGED <<body, to_addrs, jobs, settings_modal>>
       ELSE /\ body' = m.body
            /\ to_addrs' = IF m.to_addrs.none THEN None
                           ELSE Some([list |-> TRUE, items |-> m.to_addrs.val])
            /\ jobs' = update_scheduler(jobs, m)
            /\ settings_modal' = FALSE
    /\ UNCHANGED <<compare_vars, creds_vars, card, auto_vars, mail>>

\* send_email.py:389-397 : clear the badges, show Sending, compose the message
\* (a local value; composing raises for none of the values subject, to_addrs
\* and body can hold).
send_email(attachments) ==
    /\ mail.pc = "idle"
    /\ email_card' = UpdateBadge(RemoveBadge(RemoveBadge(email_card, "Finished"),
                                             "Failed"), "Sending")
    /\ mail' = [IdleMail EXCEPT !.pc = "attach", !.attachments = attachments,
                                !.i = 1]
    /\ UNCHANGED <<compare_vars, creds_vars, card, auto_vars, jobs, subject, body, to_addrs,
                   run_after_comparison, modal_settings, settings_modal>>

\* The scheduler runs the daily job (send_email.py:536-541): send_email()
\* without arguments.
send_email_daily ==
    /\ is_job_scheduled(jobs, EmailJobId)
    /\ send_email(<< >>)

\* An exception leaves send_email: the badges stay as they are.
Propagate(name) ==
    /\ mail' = [mail EXCEPT !.pc = "done", !.raised = name, !.outcome = "raised"]
    /\ UNCHANGED email_card

mail_rest == <<compare_vars, creds_vars, card, auto_vars, jobs, subject, body, to_addrs,
               run_after_comparison, modal_settings, settings_modal>>

\* Mutant: the check of the attachment path is dropped.
is_file_unchecked(path) == TRUE

\* send_email.py:400  os.path.isfile(path)
is_file(path) == path \in LocalFiles

\* send_email.py:399-407 : the next attachment.
Attach ==
    /\ mail.pc = "attach"
    /\ IF mail.i > Len(mail.attachments)
       THEN mail' = [mail EXCEPT !.pc = "connect"] /\ UNCHANGED email_card
       ELSE IF ~is_file(mail.attachments[mail.i])
       THEN Propagate("FileNotFoundError")
       ELSE mail' = [mail EXCEPT !.i = @ + 1] /\ UNCHANGED email_card
    /\ UNCHANGED mail_rest

\* One call on the SMTP session that is not guarded by a try: it returns or
\* its exception leaves send_email.
SmtpCall(at, what, then) ==
    /\ mail.pc = at
    /\ LET m == [mail EXCEPT !.log = Append(@, what)] IN
       \/ mail' = [m EXCEPT !.pc = then] /\ UNCHANGED email_card
       \/ /\ mail' = [m EXCEPT !.pc = "done", !.raised = "SMTPException",
                               !.outcome = "raised"]
          /\ UNCHANGED email_card
    /\ UNCHANGED mail_rest

\* send_email.py:409  smtplib.SMTP(host, port)
Connect == SmtpCall("connect", "connect", "ehlo1")
\* send_email.py:410, 412  server.ehlo()
Ehlo == SmtpCall("ehlo1", "ehlo", "starttls") \/ SmtpCall("ehlo2", "ehlo", "login")
\* Mutant: the session is not upgraded; the second EHLO follows the first.
StartTls_Skipped == SmtpCall("starttls", "ehlo", "login")

\* send_email.py:411  server.starttls()
StartTls == SmtpCall("starttls", "starttls", "ehlo2")

\* Exceptions of server.login that the two except clauses catch.
CaughtAtLogin == {"SMTPAuthenticationError", "SMTPException"}

\* send_email.py:413-428 : login; a caught failure shows Failed and returns.
Login ==
    /\ mail.pc = "login"
    /\ LET m == [mail EXCEPT !.log = Append(@, "login")] IN
       \/ mail' = [m EXCEPT !.pc = "send"] /\ UNCHANGED email_card
       \/ \E e \in CaughtAtLogin :
            /\ mail' = [m EXCEPT !.pc = "done", !.raised = e, !.outcome = "failed"]
            /\ email_card' = UpdateBadge(RemoveBadge(email_card, "Sending"), "Failed")
       \/ /\ mail' = [m EXCEPT !.pc = "done", !.raised = "OSError",
                               !.outcome = "raised"]
          /\ UNCHANGED email_card
    /\ UNCHANGED mail_rest

\* send_email.py:429-432 : send the message, show Finished.
SendMessage ==
    /\ mail.pc = "send"
    /\ LET m == [mail EXCEPT !.log = Append(@, "send_message")] IN
       \/ /\ mail' = [m EXCEPT !.pc = "done", !.outcome = "finished"]
          /\ email_card' = UpdateBadge(RemoveBadge(email_card, "Sending"), "Finished")
       \/ /\ mail' = [m EXCEPT !.pc = "done", !.raised = "SMTPException",
                               !.outcome = "raised"]
          /\ UNCHANGED email_card
    /\ UNCHANGED mail_rest

\* send_email returns to its caller, or its exception reaches it.
MailReturn ==
    /\ mail.pc = "done"
    /\ mail' = IdleMail
    /\ UNCHANGED <<email_card, mail_rest>>

MailStep == Attach \/ Connect \/ Ehlo \/ StartTls \/ Login \/ SendMessage \/ MailReturn

\* ------------------------------------------------------ other specifications
\* The application with periodic comparison: the Run manually button and the
\* scheduler's job both call send_comparison_request, each on its own thread.
\* The evaluator session stays up, so the launcher returns its id.
NextApp ==
    \/ run_click_cb
    \/ compare_job
    \/ \E value \in BOOLEAN : automation_switch_change_cb(value)
    \/ \E sec \in Intervals : apply_automation(sec)
    \/ \E t \in Threads : GetSessions(t) \/ Compare(t)

AppSpec == InitApp /\ [][NextApp]_vars

\* The notification node alone.
NextEmail ==
    \/ settings_click_cb
    \/ \E in \in ModalInputs : modal_save_settings(in)
    \/ \E attachments \in AttachmentChoices : send_email(attachments)
    \/ send_email_daily
    \/ MailStep

EmailSpec == InitApp /\ [][NextEmail]_vars

\* The two settings dialogs: every operation that schedules or unschedules.
NextSched ==
    \/ \E value \in BOOLEAN : automation_switch_change_cb(value)
    \/ \E sec \in Intervals : apply_automation(sec)
    \/ settings_click_cb
    \/ \E in \in ModalInputs : modal_save_settings(in)

SchedSpec == InitApp /\ [][NextSched]_vars

\* send_email.py:40-60 : the constructor runs on its arguments.
NewCredentials ==
    /\ email_creds = None
    /\ email_creds' = Some(EmailCredentials(cred_args))
    /\ UNCHANGED <<compare_vars, card, auto_vars, jobs, email_vars, cred_args>>

\* The constructor alone, on every argument list.
NextCreds == NewCredentials
CredSpec == InitCreds /\ [][NextCreds]_vars

\* ================================================================== claims
\* A thread is inside send_comparison_request, or at its return.
Active(t) == frame[t].pc # "idle"
AtReturn(t) == frame[t].pc = "done"
Shown(key) == key \in card

\* Fewer than two locations: None, empty or a single one.
FewerThanTwo(dirs) == dirs.none \/ Len(dirs.val) \in {0, 1}

\* An invocation with too few locations has made no remote call and called
\* no callback.
C1_State(t) ==
    (Active(t) /\ FewerThanTwo(eval_dirs)) =>
        /\ AtReturn(t)
        /\ frame[t].calls = NoCalls
        /\ ~frame[t].polled
        /\ frame[t].sent_to = 0
        /\ frame[t].cb_log = << >>

\* No step of an invocation with too few locations changes the two results.
C1_Step(t) ==
    (FewerThanTwo(eval_dirs) /\ (Active(t) \/ frame'[t].pc # "idle")) =>
        /\ result_comparison_dir' = result_comparison_dir
        /\ result_comparison_link' = result_comparison_link

\* C1: an invocation with eval_dirs None, empty or shorter than 2 issues no
\* remote call (session lookup, task start, status poll, request, file
\* storage), invokes no finish-callback and leaves result_comparison_dir and
\* result_comparison_link as they were when it began.
C1_InsufficientInputNoEffect ==
    /\ [](\A t \in Threads : C1_State(t))
    /\ [][\A t \in Threads : C1_Step(t)]_vars

\* C1 witness: an invocation with one location has returned, after an earlier
\* comparison had stored a result and with a callback registered.
C1_Witness ==
    \E t \in Threads :
        /\ AtReturn(t)
        /\ eval_dirs = Some(<<"/eval/a">>)
        /\ result_comparison_dir = Some("/r1")
        /\ finish_callbacks # << >>

\* C2: when the response carries an error field, no finish-callback is
\* invoked in that invocation, and it ends with Failed shown and Finished
\* not shown.
C2_ErrorResponseFails ==
    \A t \in Threads :
        (~frame[t].resp.none /\ frame[t].resp.val.error) =>
            /\ frame[t].cb_log = << >>
            /\ AtReturn(t)
            /\ Shown("Failed")
            /\ ~Shown("Finished")

\* C2 witness: a response with an error field and a result directory has
\* been received while a callback is registered.
C2_Witness ==
    \E t \in Threads :
        /\ AtReturn(t)
        /\ frame[t].resp = Some([error |-> TRUE, data |-> Some("/r1")])
        /\ finish_callbacks # << >>

\* The URL each existing link file resolves to.
ExpectedUrl ==
    ("/r1" :> <<"https://x/y">>) @@
    ("/r2" :> <<"https://server", "/model-benchmark?id=7">>)

\* The calls a successful comparison makes to the registered callbacks.
ExpectedCalls ==
    [k \in 1..Len(finish_callbacks) |->
        [fn |-> finish_callbacks[k], dir |-> result_comparison_dir,
         link |-> result_comparison_link]]

\* C3: when a comparison ends Finished, result_comparison_dir is the
\* response's data field, result_comparison_link is the URL read from the
\* link file of that directory (when it exists), and the registered
\* callbacks have been called once each, in registration order, with those
\* two values.
C3_SuccessStoresResultAndNotifies ==
    \A t \in Threads :
        (AtReturn(t) /\ Shown("Finished")) =>
            /\ ~frame[t].resp.none
            /\ result_comparison_dir = frame[t].resp.val.data
            /\ ~result_comparison_dir.none
            /\ result_comparison_dir.val \in DOMAIN ExpectedUrl =>
                 result_comparison_link = Some(ExpectedUrl[result_comparison_dir.val])
            /\ frame[t].cb_log = ExpectedCalls

\* C3 witness: the end-to-end example: /r1 with a link file holding
\* https://x/y, two different callbacks registered.
C3_Witness ==
    \E t \in Threads :
        /\ AtReturn(t)
        /\ Shown("Finished")
        /\ result_comparison_dir = Some("/r1")
        /\ result_comparison_link = Some(<<"https://x/y">>)
        /\ finish_callbacks = <<"other_cb", "on_finish_cb">>

\* The response of the invocation names a result directory without a link file.
NoLinkArtifact(t) ==
    /\ ~frame[t].resp.none
    /\ ~frame[t].resp.val.error
    /\ ~frame[t].resp.val.data.none
    /\ frame[t].resp.val.data.val \notin DOMAIN ExpectedUrl

\* C4: when the response has no error and a result directory whose link
\* file does not exist, the link file is never downloaded, the link becomes
\* the empty string, and the invocation ends Finished, not Failed, unless
\* the existence check itself or a finish-callback raises.
C4_MissingLinkIsEmpty ==
    \A t \in Threads :
        (AtReturn(t) /\ NoLinkArtifact(t)) =>
            /\ frame[t].raised \in {"", "exists", "callback"}
            /\ frame[t].calls.file = 1
            /\ frame[t].raised # "exists" => result_comparison_link = Some(EmptyStr)
            /\ frame[t].raised = "" => (Shown("Finished") /\ ~Shown("Failed"))

\* C4 witness: a comparison of /r3, which has no link file, ended Finished
\* after calling a callback.
C4_Witness ==
    \E t \in Threads :
        /\ AtReturn(t)
        /\ NoLinkArtifact(t)
        /\ Shown("Finished")
        /\ Len(frame[t].cb_log) = 1

\* C5: an invocation with at least two locations ends with exactly one of
\* Failed and Finished shown: Failed when a step raised, Finished otherwise;
\* In Progress is not shown when it returns.
C5_ExactlyOneOutcome ==
    \A t \in Threads :
        (AtReturn(t) /\ ~FewerThanTwo(eval_dirs)) =>
            /\ Shown("Failed") # Shown("Finished")
            /\ Shown("Failed") <=> frame[t].raised # ""
            /\ ~Shown("In Progress")

\* C5 witness: an invocation returned after its second callback raised.
C5_Witness ==
    \E t \in Threads :
        /\ AtReturn(t)
        /\ frame[t].raised = "callback"
        /\ Len(frame[t].cb_log) = 2
        /\ Shown("Failed")

\* Workers that are starting or running.
LiveWorkers == {id \in 1..Len(tasks) : tasks[id] \in {"QUEUED", "STARTED"}}

\* Finished and Failed are not both shown on the card.
BothShown(badges) == {"Finished", "Failed"} \subseteq badges

\* C6: in every reachable state, after any sequence of manual and
\* scheduler-triggered dispatches, neither the card of CompareNode nor the
\* card of SendEmailNode shows Finished and Failed at the same time.
C6_NeverFinishedAndFailed == ~BothShown(card) /\ ~BothShown(email_card)

\* C7: the launcher keeps at most one evaluator worker: it never has two
\* workers it started that are starting or running at the same time.
C7_AtMostOneWorker == Cardinality(LiveWorkers) <= 1

\* The sessions in STARTED status.
StartedNow == {id \in 1..Len(tasks) : tasks[id] = "STARTED"}

\* The session lookup of thread t answers in this step.
LookupAnswers(t) == frame[t].pc = "sessions" /\ frame'[t].pc # "sessions"

C8_State ==
    \A t \in Threads :
        /\ frame[t].calls.start <= 1
        /\ frame[t].seen # {} => (frame[t].calls.start = 0 /\ ~frame[t].polled)
        /\ frame[t].pc \in {"start", "poll"} => frame[t].seen = {}

C8_Step ==
    /\ \A t \in Threads :
        LookupAnswers(t) =>
            \/ frame'[t].raised = "sessions"
            \/ /\ frame'[t].seen = StartedNow
               /\ IF StartedNow # {}
                  THEN /\ frame'[t].pc = "request"
                       /\ frame'[t].task_id \in StartedNow
                       /\ tasks' = tasks
                  ELSE frame'[t].pc = "start"
    /\ Len(tasks') > Len(tasks) =>
        /\ Len(tasks') = Len(tasks) + 1
        /\ \E t \in Threads : frame[t].pc = "start" /\ frame[t].calls.start = 0
    /\ C8_State
    /\ C8_State'

\* C8: when the lookup finds a session in STARTED status the launcher
\* returns the id of one of them and neither starts a task nor polls; a task
\* start is requested, once, only when the lookup found none.
C8_ReusesStartedSession == [][C8_Step]_vars

\* C8 witness: the launcher has returned the id of a session that an
\* earlier invocation started; no second task exists.
C8_Witness ==
    \E t \in Threads :
        /\ frame[t].pc = "request"
        /\ frame[t].seen = {1}
        /\ frame[t].task_id = 1
        /\ Len(tasks) = 1

\* One turn of the polling loop of thread t.
C9_Turn(t) ==
    (frame[t].pc = "poll" /\ frame'[t] # frame[t]) =>
        LET id == frame[t].task_id
            status == tasks[id]
        IN  /\ frame[t].task_info = Some(Some(id))
            /\ frame'[t].task_id = id
            /\ \/ frame'[t].raised = "poll"
               \/ /\ status = "STARTED"
                  /\ frame'[t].pc = "request"
                  /\ frame'[t].elapsed = frame[t].elapsed
                  /\ frame'[t].sleeps = frame[t].sleeps
                  /\ ~frame'[t].timed_out
               \/ /\ status # "STARTED"
                  /\ frame'[t].elapsed = frame[t].elapsed + 5
                  /\ frame'[t].sleeps = frame[t].sleeps + 1
                  /\ IF frame'[t].elapsed > 300
                     THEN frame'[t].pc = "request" /\ frame'[t].timed_out
                     ELSE frame'[t].pc = "poll" /\ ~frame'[t].timed_out

\* After a timeout the request goes to the task that was started.
C9_AfterTimeout(t) ==
    frame[t].timed_out =>
        /\ frame[t].raised \notin {"sessions", "start", "launch", "poll"}
        /\ frame[t].pc \in {"request"} \/ frame[t].sent_to = frame[t].task_id
        /\ frame[t].task_info = Some(Some(frame[t].task_id))

\* C9: the polling loop ends: it returns the new task's id at the first poll
\* that reports STARTED, without a sleep in that turn, or after the sleep
\* that brings the elapsed time above 300 seconds; the timeout raises
\* nothing and the request is sent to the same task.
C9_PollingTerminates ==
    /\ [][\A t \in Threads : C9_Turn(t)]_vars
    /\ [](\A t \in Threads : C9_AfterTimeout(t))
    /\ \A t \in Threads : (frame[t].pc = "poll") ~> (frame[t].pc # "poll")

\* C9 witness: the loop timed out on a task that is still queued, and the
\* request sent to that task was answered.
C9_Witness ==
    \E t \in Threads :
        /\ AtReturn(t)
        /\ frame[t].timed_out
        /\ frame[t].sent_to = frame[t].task_id
        /\ ~frame[t].resp.none
        /\ tasks[frame[t].task_id] = "QUEUED"

\* C10: when the start request returns no task information, the launcher
\* raises without polling, and the comparison sends no request, calls no
\* callback and ends Failed.
C10_LaunchErrorFails ==
    \A t \in Threads :
        frame[t].task_info = Some(None) =>
            /\ AtReturn(t)
            /\ ~frame[t].polled
            /\ frame[t].calls.request = 0
            /\ frame[t].sent_to = 0
            /\ frame[t].cb_log = << >>
            /\ Shown("Failed")
            /\ ~Shown("Finished")
            /\ ~Shown("In Progress")

\* C10 witness: the start request returned nothing in an invocation that
\* follows a finished one, with a callback registered.
C10_Witness ==
    \E t \in Threads :
        /\ AtReturn(t)
        /\ frame[t].task_info = Some(None)
        /\ finish_callbacks # << >>
        /\ result_comparison_dir = Some("/r2")

\* The last Apply of the notification settings ran to its end (it hid the
\* modal), and the modal has not been opened since.
Applied == ~modal_settings.none /\ ~settings_modal

\* C11: after the notification settings are applied, a send_email_daily job
\* is registered exactly when the applied settings have Run Daily on.
C11_DailyJobIffRunDaily ==
    Applied => (is_job_scheduled(jobs, EmailJobId) <=> modal_settings.val.run_daily)

\* The ids under which the two nodes schedule.
JobIds == {CompareJobId, EmailJobId}

\* The registrations with this id.
JobsWithId(js, id) == {j \in js : j.id = id}

\* An Apply of the notification settings that reaches update_scheduler
\* leaves one send_email_daily job, at the time applied.
C12_EmailStep ==
    (settings_modal /\ ~settings_modal') =>
        JobsWithId(jobs', EmailJobId) =
            {[id |-> EmailJobId,
              trigger |-> CronTrigger(modal_settings'.val.run_daily_time),
              replaced |-> is_job_scheduled(jobs, EmailJobId) /\
                           modal_settings'.val.run_daily]}

\* No step adds a second registration for an id, and a step that changes
\* the registrations of an id that had one leaves none or a new one.
C12_Step ==
    /\ \A id \in JobIds : Cardinality(JobsWithId(jobs', id)) <= 1
    /\ \A id \in JobIds :
          (JobsWithId(jobs, id) # {} /\ JobsWithId(jobs', id) # JobsWithId(jobs, id)) =>
              JobsWithId(jobs', id) \cap JobsWithId(jobs, id) = {}
    /\ C12_EmailStep

\* C12: after any sequence of schedule and unschedule operations there is at
\* most one job per job id: scheduling an id that is registered replaces the
\* registration (its trigger) and adds no second job.
C12_OneJobPerId ==
    /\ [](\A id \in JobIds : Cardinality(JobsWithId(jobs, id)) <= 1)
    /\ [][C12_Step]_vars

\* C12 witness: both jobs are registered, each by a registration that
\* replaced an earlier one, at 15 seconds and at 18:30.
C12_Witness ==
    jobs = {[id |-> CompareJobId, trigger |-> 15, replaced |-> TRUE],
            [id |-> EmailJobId,
             trigger |-> [hour |-> 18, minute |-> 30, second |-> 0],
             replaced |-> TRUE]}

\* send_email has ended: it returned, or an exception left it.
MailEnded == mail.pc = "done"

\* The failures an SMTP session raises.
SmtpFailures == {"SMTPAuthenticationError", "SMTPException"}

\* C13: an SMTP failure raised at any step of the SMTP session of send_email
\* is caught: send_email returns with Failed shown and Finished not shown,
\* and nothing is raised to the caller.
C13_SmtpFailureCaught ==
    (MailEnded /\ mail.raised \in SmtpFailures) =>
        /\ mail.outcome = "failed"
        /\ "Failed" \in email_card
        /\ "Finished" \notin email_card

\* C14: when a dispatch that showed the running badge ends, by return or by
\* an error, the running badge (In Progress, Sending) is not shown and
\* exactly one of Finished and Failed is.
C14_TerminalBadge ==
    /\ \A t \in Threads :
          (AtReturn(t) /\ frame[t].outcome # "insufficient") =>
              /\ ~Shown("In Progress")
              /\ Shown("Finished") # Shown("Failed")
    /\ MailEnded =>
          /\ "Sending" \notin email_card
          /\ ("Finished" \in email_card) # ("Failed" \in email_card)

\* One of the attachment paths of the running send_email is not a file.
MissingAttachment ==
    \E k \in 1..Len(mail.attachments) : mail.attachments[k] \notin LocalFiles

\* C15: when an attachment path passed to send_email is not an existing
\* file, send_email fails with the missing-attachment error before any SMTP
\* connection is opened, and no message is sent.
C15_MissingAttachmentFailsFirst ==
    (mail.pc # "idle" /\ MissingAttachment) =>
        /\ mail.log = << >>
        /\ mail.pc \in {"attach", "done"}
        /\ MailEnded => (mail.raised = "FileNotFoundError" /\ mail.outcome = "raised")

\* C15 witness: send_email ended at the second attachment, the missing one,
\* after accepting the first.
C15_Witness ==
    /\ MailEnded
    /\ mail.attachments = <<"report.pdf", "missing.pdf">>
    /\ mail.i = 2
    /\ mail.raised = "FileNotFoundError"

\* The constructor has run.
Constructed == ~email_creds.none

\* A username or password that is None, empty or whitespace-only.
Blank(x) == x.none \/ Strip(x.val) = << >>

\* C16: constructing EmailCredentials fails with a configuration error for
\* every input whose username or password is None, empty or whitespace-only,
\* whether or not host and port are supplied.
C16_BlankCredentialsRefused ==
    (Constructed /\ (Blank(cred_args.username) \/ Blank(cred_args.password))) =>
        (~email_creds.val.ok /\ email_creds.val.raised = "ValueError")

\* C16 witness: a whitespace-only password is refused although the username
\* is valid and host and port are both supplied.
C16_Witness ==
    /\ Constructed
    /\ cred_args = [username |-> Some(<<"user", "@", "corp.org">>),
                    password |-> Some(<<" ", "\n">>),
                    host |-> Some(<<"mail.corp.org">>), port |-> Some(2525)]
    /\ ~email_creds.val.ok

\* The text after the last "@" of a username, lower-cased.
RECURSIVE AfterLastAt(_)
AfterLastAt(s) ==
    IF \E k \in 1..Len(s) : s[k] = "@" THEN AfterLastAt(Tail(s)) ELSE s
InTable(username) == Lower(AfterLastAt(username.val)) \in DOMAIN SMTP_PROVIDERS
TableEntry(username) == SMTP_PROVIDERS[Lower(AfterLastAt(username.val))]

\* C17: for credentials with valid username and password: without explicit
\* host and port, a username whose lower-cased domain is one of the six
\* supported domains resolves to that table entry's host and port, and an
\* unsupported domain makes construction fail; an explicitly supplied host
\* or port overrides the table value for that field; construction succeeds
\* iff both host and port end up resolved.
C17_HostPortResolution ==
    (Constructed /\ ~Blank(cred_args.username) /\ ~Blank(cred_args.password)) =>
        LET a == cred_args
            c == email_creds.val
        IN  /\ (a.host.none /\ a.port.none /\ InTable(a.username)) =>
                   /\ c.ok
                   /\ c.host = TableEntry(a.username)[1].val
                   /\ c.port = TableEntry(a.username)[2].val
            /\ (a.host.none /\ a.port.none /\ ~InTable(a.username)) => ~c.ok
            /\ (c.ok /\ ~a.host.none) => c.host = a.host.val
            /\ (c.ok /\ ~a.port.none) => c.port = a.port.val
            /\ c.ok <=> /\ (~a.host.none \/ InTable(a.username))
                        /\ (~a.port.none \/ InTable(a.username))

\* The badge state of the comparison card.
BadgeState(c) ==
    IF "In Progress" \in c THEN "running"
    ELSE IF "Finished" \in c THEN "finished"
    ELSE IF "Failed" \in c THEN "failed"
    ELSE "idle"

\* The moves the claim allows; a dispatch start clears and shows In Progress
\* in one step.
BadgeMoves ==
    {<<"idle", "running">>, <<"running", "finished">>, <<"running", "failed">>,
     <<"finished", "idle">>, <<"failed", "idle">>,
     <<"finished", "running">>, <<"failed", "running">>}

C18_Step ==
    /\ BadgeState(card') # BadgeState(card) =>
           <<BadgeState(card), BadgeState(card')>> \in BadgeMoves
    /\ \A t \in Threads :
           (frame[t].pc # "done" /\ frame'[t].pc = "done"
                /\ (Shown("Failed")' \/ Shown("Finished")')) =>
               (frame[t].pc # "idle" /\ Shown("In Progress"))

\* C18: the badge state of the comparison node moves only idle -> running at
\* a dispatch start, running -> finished on success, running -> failed on an
\* exception, and finished/failed -> cleared at the next dispatch start;
\* Failed or Finished is never entered by a dispatch that did not first
\* show In Progress.
C18_BadgeTransitions == [][C18_Step]_vars

\* The calls on the SMTP session, in the order of send_email.py:409-429.
SmtpOrder == <<"connect", "ehlo", "starttls", "ehlo", "login", "send_message">>
IsPrefix(s, t) == Len(s) <= Len(t) /\ s = SubSeq(t, 1, Len(s))

\* send_message is called only on a session whose login returned, and
\* Finished appears only once send_message has returned.
C19_Step ==
    /\ (Len(mail'.log) = 6 /\ Len(mail.log) = 5) =>
           (mail.pc = "send" /\ mail.log = SubSeq(SmtpOrder, 1, 5))
    /\ ("Finished" \in email_card' /\ "Finished" \notin email_card) =>
           (mail'.log = SmtpOrder /\ mail'.raised = "" /\ mail'.outcome = "finished")

\* C19: within send_email the SMTP steps occur in the order connect, EHLO,
\* STARTTLS, EHLO, login, send-message; the message is sent only after login
\* succeeded in the same session, and the Finished badge is shown only after
\* the message was sent.
C19_SmtpOrder ==
    /\ [](IsPrefix(mail.log, SmtpOrder) /\ (mail.pc = "send" => Len(mail.log) = 5))
    /\ [][C19_Step]_vars

\* C19 witness: a send_email that went through all six calls and shows
\* Finished.
C19_Witness ==
    /\ MailEnded
    /\ mail.log = SmtpOrder
    /\ mail.outcome = "finished"
    /\ "Finished" \in email_card

\* A dispatch that has shown In Progress and not yet its terminal badge.
InFlight(t) == frame[t].pc \notin {"idle", "done"}

\* C20: at most one comparison is in flight at any time: no dispatch of
\* send_comparison_request, from the Run button or from the scheduler's job,
\* begins while another one is between showing In Progress and its terminal
\* badge.
C20_AtMostOneInFlight == Cardinality({t \in Threads : InFlight(t)}) <= 1

\* A link resolution that holds a local copy: downloaded, not yet removed.
HoldsCopy(t) == frame[t].pc \in {"read", "remove"}

\* C21: link resolutions that run concurrently do not interfere through
\* local data: each returns the URL stored in its own remote link artifact,
\* none fails because of the other, and once each has completed its local
\* temporary copy no longer exists.
C21_LinkResolutionsIndependent ==
    /\ \A t \in Threads :
          /\ frame[t].pc = "remove" =>
                frame[t].base_url = Strip(TeamFiles[frame[t].path])
          /\ frame[t].raised # "read"
    /\ (\A t \in Threads : ~HoldsCopy(t)) => local_file.none

\* A step of the apply handler: the settings read from the modal are stored.
ApplyStep == settings_modal /\ modal_settings.none /\ ~modal_settings'.none

\* What the claim expects of an apply step with settings m.
C22_Step ==
    ApplyStep =>
        LET m == modal_settings'.val IN
        /\ ~settings_modal'
        /\ jobs' = update_scheduler(jobs, m)
        /\ m.subject.none => subject' = Some(DefaultSubject)
        /\ m.body.none => ~body'.none
        /\ m.to_addrs.none => to_addrs' = Some([list |-> FALSE, items |-> <<Username>>])

\* C22: applying the notification settings with subject, body or recipients
\* left empty falls back to the defaults and completes: the handler raises
\* nothing, the scheduler is updated and the modal is hidden, and afterwards
\* subject, body and to_addrs are never None.
C22_EmptySettingsFallBack ==
    /\ [](~subject.none /\ ~body.none /\ ~to_addrs.none)
    /\ [][C22_Step]_vars

\* A periodic comparison job is registered.
ComparisonScheduled == is_job_scheduled(jobs, CompareJobId)

\* Turning the switch off ends with no job, no badge and Apply disabled,
\* whether or not a job was registered.
C23_Step ==
    (is_automated /\ ~is_automated') =>
        /\ ~is_job_scheduled(jobs', CompareJobId)
        /\ ~Shown("Automated")'
        /\ ~apply_btn'

\* C23: after any sequence of automation-switch toggles and Apply clicks, a
\* periodic comparison job is registered in the scheduler iff the Automated
\* badge is shown; after the switch is turned off no job with the node's job
\* id remains, and turning it off when no job is scheduled raises nothing.
C23_JobIffAutomatedBadge ==
    /\ [](ComparisonScheduled <=> Shown("Automated"))
    /\ [](~is_automated => ~ComparisonScheduled)
    /\ [][C23_Step]_vars

\* C23 witness: the switch is on, Apply was clicked, and a comparison started
\* by the job is running.
C23_Witness ==
    /\ is_automated
    /\ ComparisonScheduled
    /\ Shown("Automated")
    /\ frame["job"].pc = "request"

\* C24: result_comparison_dir and result_comparison_link change only in an
\* invocation of send_comparison_request that ends Finished; an invocation
\* that ends Failed, for any reason, leaves both at their previous values.
C24_FailedLeavesResult ==
    \A t \in Threads :
        (AtReturn(t) /\ frame[t].outcome # "finished") => ~frame[t].changed
====
